---- MODULE Spec2Model ----
(***************************************************************************)
(* A model of the spectevol package:                                       *)
(*   - SpectralProcessing (spectral_processing.py): get_data, smooth_data  *)
(*   - SpectralIndices    (spectral_indices.py): construction, band        *)
(*     resolution, ndvi                                                    *)
(* Numbers.  Reflectances are held as integers in units of 1e-4; a table   *)
(* carries a denominator `den`, cell c of the table stands for the number  *)
(* c / den * 1e-4.  Wavelengths are integers in nanometres.                *)
(***************************************************************************)
EXTENDS Integers, Sequences, FiniteSets, TLC

(***************************************************************************)
(* Bounds of the model.                                                    *)
(***************************************************************************)
MaxFiles == 2       \* longest file list handed to get_data
MaxCalls == 2       \* calls in one behaviour of the call-sequence specification
MaxWindow == 4      \* largest window_length handed to smooth_data
MaxPoly == 2        \* largest polyorder handed to smooth_data

(***************************************************************************)
(* Program constants.                                                      *)
(***************************************************************************)
NumCols == 2151         \* np.reshape(data, (int(len(data) / 2151), 2151))
DefaultHeader == 27     \* def get_data(self, files, n=27)

None == [kind |-> "None"]

Raise(exc, msg) == [kind |-> "raise", exc |-> exc, msg |-> msg]

NdArray(id, den, rows) == [kind |-> "ndarray", id |-> id, den |-> den, rows |-> rows]

IsArray(v) == v.kind = "ndarray"

Shape(t) == <<Len(t.rows), IF Len(t.rows) = 0 THEN 0 ELSE Len(t.rows[1])>>

(***************************************************************************)
(* The directory the pipeline reads (self.path).  A .sed file is a header  *)
(* followed by tab separated  wavelength <TAB> reflectance  lines.  A line *)
(* is the sequence of its tab separated fields; a field is numeric (float  *)
(* parses it) or not.                                                      *)
(*   a.sed, b.sed   27 header lines + 2151 data lines                      *)
(*   short.sed      27 header lines + 2150 data lines (truncated)          *)
(*   long.sed       27 header lines + 2152 data lines                      *)
(*   empty.sed      27 header lines, no data line                          *)
(*   missing.sed    not in the directory                                   *)
(***************************************************************************)
FileNames == {"a.sed", "b.sed", "short.sed", "long.sed", "empty.sed", "missing.sed"}

FileExists(f) == f # "missing.sed"

HeaderLen(f) == DefaultHeader

DataLen(f) ==
    CASE f = "short.sed" -> NumCols - 1
      [] f = "long.sed" -> NumCols + 1
      [] f = "empty.sed" -> 0
      [] f = "missing.sed" -> 0
      [] OTHER -> NumCols

FileSeed(f) ==
    CASE f = "a.sed" -> 100
      [] f = "b.sed" -> 200
      [] f = "short.sed" -> 300
      [] f = "long.sed" -> 400
      [] OTHER -> 0

NumLines(f) == HeaderLen(f) + DataLen(f)

\* The reflectance written on data line j (0-based) of file f, in units of
\* 1e-4.  The last digit takes every value in b.sed (a last digit of 5 is a
\* decimal tie of the rounding to 3 decimals) and is never 0 or 5 in the
\* other files.
Reflectance(f, j) ==
    LET d == j % 8
    IN  FileSeed(f) + 10 * ((j * 13) % 7)
          + (IF f = "b.sed" THEN j % 10 ELSE IF d < 4 THEN d + 1 ELSE d + 2)

TextField(s) == [numeric |-> FALSE, text |-> s, val |-> 0]

NumField(v) == [numeric |-> TRUE, text |-> "", val |-> v]

\* contents[nline], nline counted from 0 as enumerate() does
FileLine(f, nline) ==
    IF nline < HeaderLen(f)
    THEN <<TextField("header")>>
    ELSE <<NumField(350 + (nline - HeaderLen(f))),
           NumField(Reflectance(f, nline - HeaderLen(f)))>>

(***************************************************************************)
(* get_data                                                                *)
(***************************************************************************)
\* float(textline.rstrip().split("\t")[1]): what evaluating it raises
LineError(line) ==
    IF Len(line) < 2 THEN "IndexError"
    ELSE IF ~line[2].numeric THEN "ValueError"
    ELSE "ok"

ParseLine(line) == line[2].val

\* The first line of f with nline >= n that does not parse, if any
FileError(f, n) ==
    LET bad == {k \in n..(NumLines(f) - 1) : LineError(FileLine(f, k)) # "ok"}
    IN  IF bad = {} THEN "ok"
        ELSE LineError(FileLine(f, CHOOSE k \in bad : \A m \in bad : k <= m))

\* The values one file appends to data: its lines with nline >= n
FileValues(f, n) ==
    [k \in 1..(IF NumLines(f) > n THEN NumLines(f) - n ELSE 0) |->
        ParseLine(FileLine(f, n + k - 1))]

NotExistMsg(f) == [msg |-> "Error: The file does not exist.", file |-> f]

\* The loop over the files: acc is [data, printed, exc].  A missing file is
\* printed and skipped; an exception of float() or of the indexing leaves
\* the loop (only FileNotFoundError is caught).
RECURSIVE ReadFiles(_, _, _)
ReadFiles(files, n, acc) ==
    IF files = <<>> THEN acc
    ELSE LET f == Head(files)
         IN  IF ~FileExists(f)
             THEN ReadFiles(Tail(files), n,
                            [acc EXCEPT !.printed = Append(@, NotExistMsg(f))])
             ELSE IF FileError(f, n) # "ok"
             THEN [acc EXCEPT !.exc = FileError(f, n)]
             ELSE ReadFiles(Tail(files), n,
                            [acc EXCEPT !.data = @ \o FileValues(f, n)])

ReshapeError == [kind |-> "raise", exc |-> "ValueError",
                 msg |-> "cannot reshape array into shape"]

\* Reshape as a reshape that keeps the whole rows and drops the rest
ReshapeTruncating(flat, r, c) ==
    [kind |-> "rows",
     rows |-> [i \in 1..r |-> [j \in 1..c |-> flat[(i - 1) * c + j]]]]

\* np.reshape(flat, (r, c)): the sizes must agree
Reshape(flat, r, c) ==
    IF r * c # Len(flat) THEN ReshapeError
    ELSE [kind |-> "rows",
          rows |-> [i \in 1..r |-> [j \in 1..c |-> flat[(i - 1) * c + j]]]]

\* floor(log2(m / c)) for positive integers m and c
RECURSIVE BinadeOf(_, _)
BinadeOf(m, c) ==
    IF m >= 2 * c THEN 1 + BinadeOf(m, 2 * c)
    ELSE IF m < c THEN BinadeOf(2 * m, c) - 1
    ELSE 0

\* 2^n mod 125
RECURSIVE PowMod125(_)
PowMod125(n) == IF n = 0 THEN 1 ELSE (2 * PowMod125(n - 1)) % 125

\* The side on which x * 1000 falls of the decimal tie k + 1/2, for the
\* double x nearest to (2k + 1) / 2000: -1 below, 1 above, 0 exactly on it.
\* With m = 2k + 1 and x = Q * 2^-E (Q the 53 bit mantissa), the exact
\* product is m/2 + d * 2^(3 - E), where d = 125 * Q - m * 2^(E - 4) lies in
\* -62..62; the product rounds back to m/2 unless |d| exceeds half a unit
\* of m/2 in the last place, which is h = 2^(f - e - 4) in the same scale
\* (e and f the binades of x and of m/2).
TieSide(k) ==
    LET m == 2 * k + 1
        e == BinadeOf(m, 2000)
        f == BinadeOf(m, 2)
        rem == ((m % 125) * PowMod125(48 - e)) % 125
        d == IF rem <= 62 THEN -rem ELSE 125 - rem
        h == 2^(f - e - 4)
    IN  IF d > h THEN 1 ELSE IF -d > h THEN -1 ELSE 0

\* ndarray.round(3) on a cell in units of 1e-4: rint(x * 1000) / 1000 on the
\* double x.  rint rounds to nearest, and a half to even.
Round3(v) ==
    LET r == v % 10
        side == IF r = 5 THEN TieSide(v \div 10) ELSE 0
    IN  IF r < 5 THEN v - r
        ELSE IF r > 5 THEN v - r + 10
        ELSE IF side < 0 THEN v - r
        ELSE IF side > 0 THEN v - r + 10
        ELSE IF ((v - r) \div 10) % 2 = 0 THEN v - r ELSE v - r + 10

RoundRows(rows) ==
    [i \in 1..Len(rows) |-> [j \in 1..Len(rows[i]) |-> Round3(rows[i][j])]]

(***************************************************************************)
(* State.                                                                  *)
(*   data, data_filtered   the pipeline's attributes self.data and         *)
(*                         self.data_filtered                              *)
(*   held                  the table the caller got from its last          *)
(*                         get_data call (data = process.get_data(f))      *)
(*   nextId                identity of the next array allocated            *)
(*   scipyEven             whether the installed savgol_filter accepts an  *)
(*                         even window_length (it does from SciPy 1.9 on,  *)
(*                         earlier releases raise)                         *)
(*   spectra               the SpectralIndices instance, or None           *)
(*   call, ret, printed    the last call, what it returned or raised, and  *)
(*                         what it printed                                 *)
(*   calls                 number of calls made                            *)
(***************************************************************************)
VARIABLES data, data_filtered, held, nextId, scipyEven, spectra,
          call, ret, printed, calls

vars == <<data, data_filtered, held, nextId, scipyEven, spectra,
          call, ret, printed, calls>>

indexVars == <<spectra>>

pipeVars == <<data, data_filtered, held, nextId, scipyEven>>

\* SpectralProcessing.__init__ has run; nothing has been called
Init ==
    /\ data = None
    /\ data_filtered = None
    /\ held = None
    /\ nextId = 1
    /\ scipyEven \in BOOLEAN
    /\ spectra = None
    /\ call = [op |-> "init"]
    /\ ret = None
    /\ printed = <<>>
    /\ calls = 0

LoadedMsg(rows) ==
    <<[msg |-> "Files were successfully loaded!", file |-> ""],
      [msg |-> "The dataset has rows and columns.", file |-> "",
       rows |-> Len(rows), cols |-> NumCols]>>

\* What get_data does once the loop has ended normally with the flat list
\* flat: the check for no data, the reshape, the store and the return.
GetDataFinish(flat, out) ==
    IF flat = <<>>
    THEN /\ ret' = None
         /\ held' = None
         /\ printed' = Append(out, [msg |-> "No valid data found.", file |-> ""])
         /\ UNCHANGED <<data, nextId>>
    ELSE \E t \in {Reshape(flat, Len(flat) \div NumCols, NumCols)} :
            IF t.kind = "raise"
            THEN /\ ret' = t
                 /\ printed' = out
                 /\ UNCHANGED <<data, held, nextId>>
            ELSE \E rounded \in {NdArray(nextId + 1, 1, RoundRows(t.rows))} :
                    /\ data' = NdArray(nextId, 1, t.rows)
                    /\ ret' = rounded
                    /\ held' = rounded
                    /\ nextId' = nextId + 2
                    /\ printed' = out \o LoadedMsg(t.rows)

\* get_data(files, n)
GetData(files, n) ==
    /\ call' = [op |-> "get_data", files |-> files, n |-> n]
    /\ calls' = calls + 1
    /\ UNCHANGED <<data_filtered, scipyEven, spectra>>
    /\ \E r \in {ReadFiles(files, n, [data |-> <<>>, printed |-> <<>>, exc |-> "ok"])} :
          IF r.exc # "ok"
          THEN /\ ret' = Raise(r.exc, "line does not parse")
               /\ printed' = r.printed
               /\ UNCHANGED <<data, held, nextId>>
          ELSE GetDataFinish(r.data, r.printed)

FileLists(names) == UNION {[1..k -> names] : k \in 0..MaxFiles}

HeaderChoices == {DefaultHeader - 1, DefaultHeader, DefaultHeader + 1}

\* One get_data call on a freshly constructed pipeline
NextIngest ==
    \E files \in FileLists(FileNames), n \in HeaderChoices :
        /\ calls = 0
        /\ GetData(files, n)

SpecIngest == Init /\ [][NextIngest]_vars

(***************************************************************************)
(* smooth_data: scipy.signal.savgol_filter(data, window_length, polyorder, *)
(* deriv=0, delta=1.0, axis=-1, mode='interp', cval=0.0)                   *)
(*                                                                         *)
(* SavgolCoeffs(w, p, pos2) are the weights, times SavgolDen(w, p), that   *)
(* the least-squares polynomial of degree p through the w samples at       *)
(* positions 0..w-1 puts on the samples when it is evaluated at position   *)
(* pos2 / 2.  The filter uses the centre of the window (pos2 = w - 1) away *)
(* from the edges and, mode 'interp', the polynomial fitted to the first   *)
(* (last) w samples for the first (last) w \div 2 outputs.  The weights    *)
(* are exact rationals; the arithmetic is exact where the library rounds   *)
(* to doubles.                                                             *)
(***************************************************************************)
SavgolDen(w, p) ==
    CASE w = 1 -> 1
      [] w = 2 -> 2
      [] w = 3 /\ p = 0 -> 3
      [] w = 3 /\ p = 1 -> 6
      [] w = 3 /\ p = 2 -> 1
      [] w = 4 /\ p = 0 -> 4
      [] w = 4 /\ p = 1 -> 20
      [] w = 4 /\ p = 2 -> 80
      [] w = 4 /\ p = 3 -> 16
      [] w = 5 /\ p = 0 -> 5
      [] w = 5 /\ p = 1 -> 10
      [] w = 5 /\ p = 2 -> 35
      [] w = 5 /\ p = 3 -> 70

SavgolCoeffs(w, p, pos2) ==
    CASE p = 0 -> [t \in 1..w |-> 1]
      [] w = 2 /\ p = 1 ->
           (CASE pos2 = 0 -> <<2, 0>> [] pos2 = 1 -> <<1, 1>> [] pos2 = 2 -> <<0, 2>>)
      [] w = 3 /\ p = 1 ->
           (CASE pos2 = 0 -> <<5, 2, -1>> [] pos2 = 2 -> <<2, 2, 2>>
             [] pos2 = 4 -> <<-1, 2, 5>>)
      [] w = 3 /\ p = 2 ->
           (CASE pos2 = 0 -> <<1, 0, 0>> [] pos2 = 2 -> <<0, 1, 0>>
             [] pos2 = 4 -> <<0, 0, 1>>)
      [] w = 4 /\ p = 1 ->
           (CASE pos2 = 0 -> <<14, 8, 2, -4>> [] pos2 = 2 -> <<8, 6, 4, 2>>
             [] pos2 = 3 -> <<5, 5, 5, 5>> [] pos2 = 4 -> <<2, 4, 6, 8>>
             [] pos2 = 6 -> <<-4, 2, 8, 14>>)
      [] w = 4 /\ p = 2 ->
           (CASE pos2 = 0 -> <<76, 12, -12, 4>> [] pos2 = 2 -> <<12, 44, 36, -12>>
             [] pos2 = 3 -> <<-5, 45, 45, -5>> [] pos2 = 4 -> <<-12, 36, 44, 12>>
             [] pos2 = 6 -> <<4, -12, 12, 76>>)
      [] w = 4 /\ p = 3 ->
           (CASE pos2 = 0 -> <<16, 0, 0, 0>> [] pos2 = 2 -> <<0, 16, 0, 0>>
             [] pos2 = 3 -> <<-1, 9, 9, -1>> [] pos2 = 4 -> <<0, 0, 16, 0>>
             [] pos2 = 6 -> <<0, 0, 0, 16>>)
      [] w = 5 /\ p = 1 ->
           (CASE pos2 = 0 -> <<6, 4, 2, 0, -2>> [] pos2 = 2 -> <<4, 3, 2, 1, 0>>
             [] pos2 = 4 -> <<2, 2, 2, 2, 2>> [] pos2 = 6 -> <<0, 1, 2, 3, 4>>
             [] pos2 = 8 -> <<-2, 0, 2, 4, 6>>)
      [] w = 5 /\ p = 2 ->
           (CASE pos2 = 0 -> <<31, 9, -3, -5, 3>> [] pos2 = 2 -> <<9, 13, 12, 6, -5>>
             [] pos2 = 4 -> <<-3, 12, 17, 12, -3>> [] pos2 = 6 -> <<-5, 6, 12, 13, 9>>
             [] pos2 = 8 -> <<3, -5, -3, 9, 31>>)
      [] w = 5 /\ p = 3 ->
           (CASE pos2 = 0 -> <<69, 4, -6, 4, -1>> [] pos2 = 2 -> <<4, 54, 24, -16, 4>>
             [] pos2 = 4 -> <<-6, 24, 34, 24, -6>> [] pos2 = 6 -> <<4, -16, 24, 54, 4>>
             [] pos2 = 8 -> <<-1, 4, -6, 4, 69>>)

\* sum of c[t] * x[start + t - 1] for t in k..Len(c)
RECURSIVE Dot(_, _, _, _)
Dot(c, x, start, k) ==
    IF k > Len(c) THEN 0
    ELSE c[k] * x[start + k - 1] + Dot(c, x, start, k + 1)

\* Output j (1-based) of the filter on one row x of length n >= w
SavgolCell(x, w, p, j) ==
    LET n == Len(x)
        h == w \div 2
    IN  IF j <= h
        THEN Dot(SavgolCoeffs(w, p, 2 * (j - 1)), x, 1, 1)
        ELSE IF j > n - h
        THEN Dot(SavgolCoeffs(w, p, 2 * (j - (n - w + 1))), x, n - w + 1, 1)
        ELSE Dot(SavgolCoeffs(w, p, w - 1), x,
                 IF w % 2 = 1 THEN j - h ELSE j - h + 1, 1)

\* savgol_filter on table t: the checks of its arguments, then a new array
Savgol(t, w, p, evenOk, id) ==
    IF p >= w
    THEN Raise("ValueError", "polyorder must be less than window_length.")
    ELSE IF w % 2 = 0 /\ ~evenOk
    THEN Raise("ValueError", "window_length must be odd.")
    ELSE IF w > Shape(t)[2]
    THEN Raise("ValueError",
               "If mode is 'interp', window_length must be less than or equal to the size of x.")
    ELSE NdArray(id, t.den * SavgolDen(w, p),
                 [i \in 1..Len(t.rows) |->
                    [j \in 1..Len(t.rows[i]) |-> SavgolCell(t.rows[i], w, p, j)]])

\* SmoothStore as an assignment that also overwrites self.data
SmoothStoreOverRaw(y) ==
    /\ data' = y
    /\ data_filtered' = y
    /\ ret' = y
    /\ nextId' = nextId + 1
    /\ printed' = <<[msg |-> "Data successfully smoothed!", file |-> ""]>>
    /\ UNCHANGED held

\* The assignments of smooth_data once savgol_filter has returned y
SmoothStore(y) ==
    /\ data_filtered' = y
    /\ ret' = y
    /\ nextId' = nextId + 1
    /\ printed' = <<[msg |-> "Data successfully smoothed!", file |-> ""]>>
    /\ UNCHANGED <<data, held>>

\* The table a caller can pass: the one get_data returned, or one of the
\* pipeline's attributes
Source(src) ==
    CASE src = "returned" -> held
      [] src = "raw" -> data
      [] src = "filtered" -> data_filtered

Sources == {"returned", "raw", "filtered"}

\* smooth_data(x, window_length, polyorder), x the table Source(src)
SmoothData(src, w, p) ==
    /\ IsArray(Source(src))
    /\ call' = [op |-> "smooth_data", src |-> src,
                window_length |-> w, polyorder |-> p]
    /\ calls' = calls + 1
    /\ UNCHANGED <<scipyEven, spectra>>
    /\ \E y \in {Savgol(Source(src), w, p, scipyEven, nextId)} :
          IF y.kind = "raise"
          THEN /\ ret' = y
               /\ printed' = <<>>
               /\ UNCHANGED <<data, data_filtered, held, nextId>>
          ELSE SmoothStore(y)

\* The batches of the call-sequence specification: none, one and two files
SeqBatches == {<<>>, <<"a.sed">>, <<"a.sed", "b.sed">>}

Next ==
    \/ \E files \in SeqBatches :
          /\ calls < MaxCalls
          /\ GetData(files, DefaultHeader)
    \/ \E src \in Sources, w \in 0..MaxWindow, p \in 0..MaxPoly :
          /\ calls < MaxCalls
          /\ SmoothData(src, w, p)

Spec == Init /\ [][Next]_vars

(***************************************************************************)
(* SpectralIndices                                                         *)
(***************************************************************************)
\* The sensors dictionary of get_sensor_bands: band |-> (low, high), and for
\* sentinel-2 band |-> wavelength
Sensors ==
    ("general" :>
        ("blue" :> <<450, 520>> @@ "green" :> <<521, 600>> @@
         "red" :> <<601, 690>> @@ "nir" :> <<700, 800>>)) @@
    ("landsat-8" :>
        ("aerosol" :> <<435, 451>> @@ "blue" :> <<452, 512>> @@
         "green" :> <<533, 590>> @@ "red" :> <<636, 673>> @@
         "nir" :> <<851, 879>> @@ "swir1" :> <<1566, 1651>> @@
         "swir2" :> <<2107, 2294>> @@ "cirrus" :> <<1363, 1384>>)) @@
    ("landsat-9" :>
        ("aerosol" :> <<435, 451>> @@ "blue" :> <<452, 512>> @@
         "green" :> <<533, 590>> @@ "red" :> <<636, 673>> @@
         "nir" :> <<851, 879>> @@ "swir1" :> <<1566, 1651>> @@
         "swir2" :> <<2107, 2294>> @@ "cirrus" :> <<1363, 1384>>)) @@
    ("landsat-7" :>
        ("blue" :> <<450, 515>> @@ "green" :> <<525, 605>> @@
         "red" :> <<630, 690>> @@ "nir" :> <<775, 900>> @@
         "swir1" :> <<1550, 1750>> @@ "swir2" :> <<2090, 2350>> @@
         "pan" :> <<520, 900>>)) @@
    ("sentinel-2" :>
        ("aerosol" :> 443 @@ "blue" :> 490 @@ "green" :> 560 @@
         "red" :> 665 @@ "red-edge" :> 705 @@ "nir" :> 842 @@
         "nira" :> 865 @@ "nir1" :> 740 @@ "nir2" :> 783 @@
         "water_vapour" :> 945 @@ "cirrus" :> 1375 @@
         "swir1" :> 1610 @@ "swir2" :> 2190)) @@
    ("planet" :>
        ("coastal" :> <<431, 452>> @@ "blue" :> <<465, 515>> @@
         "green1" :> <<513, 549>> @@ "green" :> <<547, 583>> @@
         "yellow" :> <<600, 620>> @@ "red" :> <<650, 680>> @@
         "red-edge" :> <<697, 713>> @@ "nir" :> <<845, 885>>))

NoBands == [kind |-> "None"]

\* GetSensorBands as a lookup that falls back to the general sensor
GetSensorBandsFallback(sensor) ==
    IF sensor \in DOMAIN Sensors THEN Sensors[sensor] ELSE Sensors["general"]

\* get_sensor_bands: sensors.get(self.sensor, None)
GetSensorBands(sensor) ==
    IF sensor \in DOMAIN Sensors THEN Sensors[sensor] ELSE NoBands

\* CenterOf as a midpoint rounded half up
CenterOfRoundUp(lo, hi) == (lo + hi + 1) \div 2

\* int((wavelength[0] + wavelength[1]) / 2) on non-negative wavelengths
CenterOf(lo, hi) == (lo + hi) \div 2

SensorNotFoundMsg(sensor) == "Sensor '" \o sensor \o "' not found in database."

MethodMsg == "Method must be either 'centerband' or 'average'."

SentinelMsg == "Sentinel-2 only works with centerband method"

\* get_centerband
GetCenterband(sensor, bands) ==
    IF bands = NoBands
    THEN Raise("ValueError", SensorNotFoundMsg(sensor))
    ELSE IF sensor = "sentinel-2"
    THEN [kind |-> "dict", map |-> [b \in DOMAIN bands |-> bands[b]]]
    ELSE [kind |-> "dict",
          map |-> [b \in DOMAIN bands |-> CenterOf(bands[b][1], bands[b][2])]]

\* InitIndices without the check of sentinel-2 against the average method
InitIndicesNoSentinelCheck(sensor, method) ==
    IF method \notin {"centerband", "average"}
    THEN Raise("ValueError", MethodMsg)
    ELSE LET bands == GetSensorBands(sensor)
             centers == GetCenterband(sensor, bands)
         IN  IF centers.kind = "raise" THEN centers
             ELSE [kind |-> "SpectralIndices", sensor |-> sensor,
                   method |-> method, bands |-> bands,
                   centerbands |-> centers.map]

\* SpectralIndices.__init__(sensor, method): the instance, or what it raises
InitIndices(sensor, method) ==
    IF method \notin {"centerband", "average"}
    THEN Raise("ValueError", MethodMsg)
    ELSE IF sensor = "sentinel-2" /\ method = "average"
    THEN Raise("ValueError", SentinelMsg)
    ELSE LET bands == GetSensorBands(sensor)
             centers == GetCenterband(sensor, bands)
         IN  IF centers.kind = "raise" THEN centers
             ELSE [kind |-> "SpectralIndices", sensor |-> sensor,
                   method |-> method, bands |-> bands,
                   centerbands |-> centers.map]

\* spectra = SpectralIndices(sensor, method): a constructor that raises
\* leaves the name bound to what it was
Construct(sensor, method) ==
    /\ call' = [op |-> "SpectralIndices", sensor |-> sensor, method |-> method]
    /\ \E r \in {InitIndices(sensor, method)} :
          /\ ret' = r
          /\ spectra' = IF r.kind = "raise" THEN spectra ELSE r
    /\ UNCHANGED <<pipeVars, printed, calls>>

(***************************************************************************)
(* Reflectance tables handed to the index functions: a DataFrame is its    *)
(* column labels and its rows.  A cell of a Series is a rational num/den   *)
(* or NaN.                                                                 *)
(*   grid     pd.DataFrame(data) with columns range(350, 2501)             *)
(*   visible  the same restricted to the columns 350..600                  *)
(*   ends     two columns, 601 and 690                                     *)
(***************************************************************************)
FrameNames == {"grid", "visible", "ends"}

Frame(name) ==
    CASE name = "grid" ->
           [cols |-> [j \in 1..NumCols |-> 349 + j],
            rows |-> <<[j \in 1..NumCols |-> Round3(Reflectance("a.sed", j - 1))],
                       [j \in 1..NumCols |-> Round3(Reflectance("b.sed", j - 1))]>>]
      [] name = "visible" ->
           [cols |-> [j \in 1..251 |-> 349 + j],
            rows |-> <<[j \in 1..251 |-> Round3(Reflectance("a.sed", j - 1))],
                       [j \in 1..251 |-> Round3(Reflectance("b.sed", j - 1))]>>]
      [] name = "ends" ->
           [cols |-> <<601, 690>>, rows |-> <<<<120, 340>>, <<200, 201>>>>]

Num(n, d) == [k |-> "num", num |-> n, den |-> d]

NaN == [k |-> "nan", num |-> 0, den |-> 0]

Series(vals) == [kind |-> "Series", vals |-> vals]

\* The sum of row[j] over the columns j of a..b that are in sel (by halves)
RECURSIVE SumCols(_, _, _, _)
SumCols(row, sel, a, b) ==
    IF a > b THEN 0
    ELSE IF a = b THEN (IF a \in sel THEN row[a] ELSE 0)
    ELSE SumCols(row, sel, a, (a + b) \div 2)
         + SumCols(row, sel, (a + b) \div 2 + 1, b)

\* _get_band_values(df, band_name) of instance inst
GetBandValues(inst, df, band) ==
    IF inst.method = "centerband"
    THEN IF band \notin DOMAIN inst.centerbands
         THEN Raise("KeyError", "band")
         ELSE LET at == {j \in 1..Len(df.cols) : df.cols[j] = inst.centerbands[band]}
              IN  IF at = {} THEN Raise("KeyError", "column")
                  ELSE Series([i \in 1..Len(df.rows) |->
                                  Num(df.rows[i][CHOOSE j \in at : TRUE], 1)])
    ELSE IF band \notin DOMAIN inst.bands
         THEN Raise("KeyError", "band")
         ELSE IF inst.sensor = "sentinel-2"
         THEN Raise("TypeError", "'int' object is not subscriptable")
         ELSE LET sel == {j \in 1..Len(df.cols) :
                            /\ df.cols[j] >= inst.bands[band][1]
                            /\ df.cols[j] <= inst.bands[band][2]}
              IN  Series([i \in 1..Len(df.rows) |->
                            IF sel = {} THEN NaN
                            ELSE Num(SumCols(df.rows[i], sel, 1, Len(df.cols)),
                                     Cardinality(sel))])

\* spectra._get_band_values(Frame(name), band)
GetBand(name, band) ==
    /\ spectra # None
    /\ call' = [op |-> "_get_band_values", df |-> name, band |-> band]
    /\ \E r \in {GetBandValues(spectra, Frame(name), band)} : ret' = r
    /\ UNCHANGED <<pipeVars, spectra, printed, calls>>

SensorChoices == DOMAIN Sensors \cup {"foo", "oli"}

MethodChoices == {"centerband", "average", "median"}

BandChoices == {"red", "nir", "blue", "pan", "swir2", "nira", "bogus"}

NextIdx ==
    \/ \E sensor \in SensorChoices, method \in MethodChoices :
          Construct(sensor, method)
    \/ \E name \in FrameNames, band \in BandChoices :
          GetBand(name, band)

\* no pipeline call is made: the library build plays no part
InitIdx == Init /\ scipyEven

SpecIdx == InitIdx /\ [][NextIdx]_vars

(***************************************************************************)
(* ndvi.  The cells are IEEE-754 doubles (numpy float64).  The model takes *)
(* integer-valued cells n with 0 <= n < 2^30, which doubles hold exactly,  *)
(* and follows the three roundings of                                      *)
(*     (nir - red) / (nir + red + 1e-10)                                   *)
(* nir - red and nir + red are exact.  The double 1e-10 is                 *)
(* (EpsHi * 2^26 + EpsLo) * 2^-86, a 53 bit odd mantissa.  For s >= 1 in   *)
(* the binade [2^k, 2^(k+1)), s + 1e-10 rounds to s plus a whole number of *)
(* units 2^(k-52): the nearest to 1e-10, which is never a tie because the  *)
(* mantissa is odd.  A double here is                                      *)
(*     int + (hi * 2^26 + lo) * 2^exp.                                     *)
(* The quotient is kept as the pair of its operands: division rounds to    *)
(* nearest, so the quotient is 0 iff num = 0, is 1 iff num = den, and is   *)
(* below 1 iff num < den (1 - 2^-53 is a double).                          *)
(* A band value is a cell num/den of _get_band_values (den is the number   *)
(* of columns averaged).  When both band values are whole numbers the      *)
(* arithmetic above is done on them.  A mean that is not a whole number is *)
(* a rounded double; the cell of ndvi is then kept as the rational         *)
(*     num / (sum + scale * 1e-10)                                         *)
(* of the unrounded means, which the double result equals up to rounding.  *)
(***************************************************************************)
EpsHi == 115292150

EpsLo == 30916027

Dbl(int, hi, lo, exp) == [int |-> int, hi |-> hi, lo |-> lo, exp |-> exp]

RECURSIVE Log2Floor(_)
Log2Floor(s) == IF s < 2 THEN 0 ELSE 1 + Log2Floor(s \div 2)

\* The number of units 2^(k-52) nearest to 1e-10
EpsUnits(k) ==
    IF 8 + k > 27 THEN 0
    ELSE (EpsHi \div 2^(8 + k))
         + (IF EpsHi % 2^(8 + k) >= 2^(7 + k) THEN 1 ELSE 0)

\* s + 1e-10 for an integer s >= 0
AddEps(s) ==
    IF s = 0 THEN Dbl(0, EpsHi, EpsLo, -86)
    ELSE Dbl(s, 0, EpsUnits(Log2Floor(s)), Log2Floor(s) - 52)

\* NdviDenominator without the epsilon
NdviDenominatorNoEps(nir, red) == Dbl(nir + red, 0, 0, 0)

\* nir + red + 1e-10
NdviDenominator(nir, red) == AddEps(nir + red)

\* (nir - red) / (nir + red + 1e-10) on one cell
NdviCell(nir, red) ==
    IF nir.k = "nan" \/ red.k = "nan" THEN NaN
    ELSE IF nir.num % nir.den = 0 /\ red.num % red.den = 0
    THEN [k |-> "quotient",
          num |-> (nir.num \div nir.den) - (red.num \div red.den),
          den |-> NdviDenominator(nir.num \div nir.den, red.num \div red.den)]
    ELSE [k |-> "ratio",
          num |-> nir.num * red.den - red.num * nir.den,
          sum |-> nir.num * red.den + red.num * nir.den,
          scale |-> nir.den * red.den]

\* ndvi(df, nir) of instance inst
NdviOf(inst, df, nirBand) ==
    LET nir == GetBandValues(inst, df, nirBand)
        red == GetBandValues(inst, df, "red")
    IN  IF nir.kind = "raise" THEN nir
        ELSE IF red.kind = "raise" THEN red
        ELSE Series([i \in 1..Len(nir.vals) |-> NdviCell(nir.vals[i], red.vals[i])])

\* spectra.ndvi(df, nir)
Ndvi(df, nirBand) ==
    /\ spectra # None
    /\ call' = [op |-> "ndvi", df |-> df, nir |-> nirBand]
    /\ \E r \in {NdviOf(spectra, df, nirBand)} : ret' = r
    /\ UNCHANGED <<pipeVars, spectra, printed, calls>>

Abs(x) == IF x < 0 THEN -x ELSE x

DblPositive(d) == d.int > 0 \/ d.hi > 0 \/ d.lo > 0

\* |q| < 1, |q| <= 1 and q = 0 for a quotient cell q with a positive denominator
QuotientInside(q) ==
    \/ Abs(q.num) < q.den.int
    \/ (Abs(q.num) = q.den.int /\ (q.den.hi > 0 \/ q.den.lo > 0))

QuotientWithin(q) == Abs(q.num) <= q.den.int

QuotientZero(q) == q.num = 0 /\ DblPositive(q.den)

MaxExp == 21    \* the largest cell is 2^MaxExp

NdviValues ==
    {0, 1, 2, 3, 50, 100}
        \cup {2^k : k \in 18..MaxExp} \cup {2^k - 1 : k \in 18..MaxExp}
        \cup {2^20 + 1}

\* One row with the columns the general sensor's red and nir centre on
NdviFrame(redv, nirv) == [cols |-> <<645, 750>>, rows |-> <<<<redv, nirv>>>>]

\* One row with the two ends of the general sensor's red range and one nir
\* column: the average method takes the mean of the first two cells
NdviWideFrame(lowv, highv, nirv) ==
    [cols |-> <<601, 690, 750>>, rows |-> <<<<lowv, highv, nirv>>>>]

NdviWideRows ==
    {<<100, 300, 400>>, <<1, 3, 2>>, <<0, 0, 2^20>>, <<2^19, 2^20 + 2^19, 0>>,
     <<0, 2, 1>>, <<3, 5, 4>>}

\* SpectralIndices("general", method) has been constructed
InitNdvi ==
    /\ data = None
    /\ data_filtered = None
    /\ held = None
    /\ nextId = 1
    /\ scipyEven = TRUE
    /\ spectra \in {InitIndices("general", method) : method \in {"centerband", "average"}}
    /\ call = [op |-> "SpectralIndices", sensor |-> "general", method |-> spectra.method]
    /\ ret = spectra
    /\ printed = <<>>
    /\ calls = 0

NdviFrames ==
    {NdviFrame(redv, nirv) : redv \in NdviValues, nirv \in NdviValues}
        \cup {NdviWideFrame(r[1], r[2], r[3]) : r \in NdviWideRows}

NextNdvi == \E df \in NdviFrames : Ndvi(df, "nir")

SpecNdvi == InitNdvi /\ [][NextNdvi]_vars

(***************************************************************************)
(* Properties of get_data, checked under SpecIngest.                       *)
(***************************************************************************)
Readable(files) == SelectSeq(files, FileExists)

\* The number of values get_data collects from files when no line fails
RECURSIVE TotalValues(_, _)
TotalValues(files, n) ==
    IF files = <<>> THEN 0
    ELSE (IF FileExists(Head(files)) /\ NumLines(Head(files)) > n
          THEN NumLines(Head(files)) - n ELSE 0)
         + TotalValues(Tail(files), n)

ParsesClean(files, n) ==
    \A i \in 1..Len(files) :
        FileExists(files[i]) => FileError(files[i], n) = "ok"

MissingReported ==
    \A i \in 1..Len(call.files) :
        ~FileExists(call.files[i]) =>
            \E k \in 1..Len(printed) : printed[k] = NotExistMsg(call.files[i])

\* C1: a table returned by get_data has 2151 columns and one row per file
\* that was read, every missing file having been reported and skipped.
C1_RowPerParsedFile ==
    (call.op = "get_data" /\ IsArray(ret)) =>
        /\ MissingReported
        /\ Shape(ret) = <<Len(Readable(call.files)), NumCols>>

\* C2: when the number of values collected is not a multiple of 2151,
\* get_data fails with the reshape error and neither stores nor returns a
\* table.
C2_ShapeError ==
    (call.op = "get_data" /\ TotalValues(call.files, call.n) % NumCols # 0) =>
        /\ ret.kind = "raise"
        /\ ParsesClean(call.files, call.n) => ret = ReshapeError
        /\ data = None
        /\ held = None

C2_Witness ==
    /\ call.op = "get_data"
    /\ call.files = <<"short.sed">>
    /\ call.n = DefaultHeader
    /\ TotalValues(call.files, call.n) = NumCols - 1
    /\ ret = ReshapeError
    /\ data = None

\* C10: every row of the table get_data stores is exactly the values of one
\* file, the i-th row being those of the i-th file that was read.
C10_RowIsOneFile ==
    (call.op = "get_data" /\ IsArray(ret)) =>
        \A i \in 1..Len(data.rows) :
            /\ i <= Len(Readable(call.files))
            /\ data.rows[i] = FileValues(Readable(call.files)[i], call.n)

(***************************************************************************)
(* Properties of smooth_data, checked under Spec.                          *)
(***************************************************************************)
\* C6: smooth_data fails whenever the window length is even or is not
\* greater than the polynomial order.
C6_RejectsBadWindow ==
    (/\ call.op = "smooth_data"
     /\ (call.window_length % 2 = 0 \/ call.window_length <= call.polyorder)) =>
        ret.kind = "raise"

\* C8: a call of smooth_data leaves the raw table (self.data) and the table
\* it was given as they were; when it succeeds, the table it returns is a
\* new one of the same shape as its input, and it is what data_filtered
\* holds; when it fails, data_filtered keeps its value.
C8_RawUntouched ==
    [][(call'.op = "smooth_data" /\ calls' = calls + 1) =>
          /\ data' = data
          /\ held' = held
          /\ ret'.kind = "raise" => data_filtered' = data_filtered
          /\ IsArray(ret') =>
                /\ data_filtered' = ret'
                /\ ret'.id # Source(call'.src).id
                /\ IsArray(data) => ret'.id # data.id
                /\ Shape(ret') = Shape(Source(call'.src))]_vars

C8_Witness ==
    /\ call.op = "smooth_data"
    /\ call.src = "raw"
    /\ call.window_length % 2 = 1
    /\ call.window_length > call.polyorder
    /\ IsArray(ret)
    /\ IsArray(data)
    /\ data_filtered = ret
    /\ ret.id # data.id
    /\ Shape(ret) = Shape(data)
    /\ \E j \in 1..NumCols : ret.rows[1][j] # data.rows[1][j] * (ret.den \div data.den)

(***************************************************************************)
(* Properties of SpectralIndices, checked under SpecIdx.                   *)
(***************************************************************************)
Methods == {"centerband", "average"}

\* C3: constructing SpectralIndices with a method other than centerband or
\* average, or with sentinel-2 and average, raises a ValueError naming the
\* fault; no instance ever holds such a configuration.
C3_RejectsConfiguration ==
    /\ (/\ call.op = "SpectralIndices"
        /\ call.method \notin Methods) =>
            ret = Raise("ValueError", MethodMsg)
    /\ (/\ call.op = "SpectralIndices"
        /\ call.sensor = "sentinel-2"
        /\ call.method = "average") =>
            ret = Raise("ValueError", SentinelMsg)
    /\ spectra # None =>
            /\ spectra.method \in Methods
            /\ ~(spectra.sensor = "sentinel-2" /\ spectra.method = "average")

C3_Witness ==
    /\ call.op = "SpectralIndices"
    /\ call.sensor = "sentinel-2"
    /\ call.method = "average"
    /\ ret = Raise("ValueError", SentinelMsg)

\* C4: constructing SpectralIndices with a sensor that is not in the catalog
\* raises a ValueError of its own (neither of the method errors); an
\* instance always holds the band map of its own sensor, never no map and
\* never the map of general in place of another's.
C4_UnknownSensor ==
    /\ (/\ call.op = "SpectralIndices"
        /\ call.method \in Methods
        /\ call.sensor \notin DOMAIN Sensors) =>
            /\ ret = Raise("ValueError", SensorNotFoundMsg(call.sensor))
            /\ ret.msg \notin {MethodMsg, SentinelMsg}
    /\ spectra # None =>
            /\ spectra.sensor \in DOMAIN Sensors
            /\ spectra.bands # NoBands
            /\ spectra.bands = Sensors[spectra.sensor]
            /\ DOMAIN spectra.centerbands = DOMAIN spectra.bands

C4_Witness ==
    /\ call.op = "SpectralIndices"
    /\ call.sensor = "foo"
    /\ call.method = "centerband"
    /\ ret = Raise("ValueError", SensorNotFoundMsg("foo"))

\* C5: under the average method, _get_band_values fails when no column of
\* the table lies in the band's wavelength range.
C5_NoColumnInRange ==
    (/\ call.op = "_get_band_values"
     /\ spectra.method = "average"
     /\ spectra.sensor # "sentinel-2"
     /\ call.band \in DOMAIN spectra.bands
     /\ \A j \in 1..Len(Frame(call.df).cols) :
           \/ Frame(call.df).cols[j] < spectra.bands[call.band][1]
           \/ Frame(call.df).cols[j] > spectra.bands[call.band][2]) =>
        ret.kind = "raise"

\* C7: the centre wavelength of a band is floor((low + high) / 2) of its
\* range, and for sentinel-2 the discrete wavelength of the catalog; for
\* general, red centres on 645 and nir on 750.
C7_Centerband ==
    spectra # None =>
        /\ \A b \in DOMAIN spectra.bands :
              IF spectra.sensor = "sentinel-2"
              THEN spectra.centerbands[b] = Sensors["sentinel-2"][b]
              ELSE LET lo == Sensors[spectra.sensor][b][1]
                       hi == Sensors[spectra.sensor][b][2]
                       c  == spectra.centerbands[b]
                   IN  2 * c <= lo + hi /\ lo + hi < 2 * c + 2
        /\ spectra.sensor = "general" =>
              /\ spectra.centerbands["red"] = 645
              /\ spectra.centerbands["nir"] = 750

C7_Witness ==
    /\ call.op = "SpectralIndices"
    /\ call.sensor = "general"
    /\ spectra # None
    /\ spectra = ret
    /\ spectra.sensor = "general"
    /\ spectra.bands["red"] = <<601, 690>>
    /\ spectra.centerbands["red"] = 645

(***************************************************************************)
(* Properties of ndvi, checked under SpecNdvi.                             *)
(***************************************************************************)
\* The band values ndvi resolved for row i (whole numbers in every frame of
\* NdviFrames)
NdviRed(i) ==
    LET c == GetBandValues(spectra, call.df, "red").vals[i]
    IN  c.num \div c.den

NdviNir(i) ==
    LET c == GetBandValues(spectra, call.df, call.nir).vals[i]
    IN  c.num \div c.den

\* C9 as stated: for non-negative reflectances that are not both zero ndvi
\* is strictly between -1 and 1, and ndvi of equal positive reflectances is
\* exactly 0.
C9_StrictlyInside ==
    (call.op = "ndvi" /\ ret.kind = "Series") =>
        \A i \in 1..Len(ret.vals) :
            /\ (NdviRed(i) # 0 \/ NdviNir(i) # 0) => QuotientInside(ret.vals[i])
            /\ (NdviRed(i) = NdviNir(i) /\ NdviNir(i) > 0) => QuotientZero(ret.vals[i])

\* C9 amended: ndvi of non-negative reflectances lies in [-1, 1]; it is
\* strictly between -1 and 1 when they are not both zero and their sum is
\* below 2^20; ndvi of equal positive reflectances is exactly 0.
C9_InsideBelowAbsorption ==
    (call.op = "ndvi" /\ ret.kind = "Series") =>
        \A i \in 1..Len(ret.vals) :
            /\ QuotientWithin(ret.vals[i])
            /\ (/\ NdviRed(i) # 0 \/ NdviNir(i) # 0
                /\ NdviRed(i) + NdviNir(i) < 2^20) => QuotientInside(ret.vals[i])
            /\ (NdviRed(i) = NdviNir(i) /\ NdviNir(i) > 0) => QuotientZero(ret.vals[i])

C9_Witness ==
    /\ call.op = "ndvi"
    /\ ret.kind = "Series"
    /\ ret.vals[1].k = "quotient"
    /\ NdviRed(1) = 0
    /\ NdviNir(1) = 2^20
    /\ ret.vals[1].num = ret.vals[1].den.int
    /\ ret.vals[1].den.hi = 0
    /\ ret.vals[1].den.lo = 0

====
